---- MODULE Spec2Model ----
(***************************************************************************)
(* Model of apidiff.py: run_compare extracts the sources of two commits    *)
(* (copy_commit_paths), generates a jdiff XML description for each         *)
(* (gen_xml) and compares the two descriptions (compare_xml).              *)
(*                                                                         *)
(* Paths are sequences of path segments, relative to output_path for the   *)
(* output side and to the root of the commit's tree for the git side.      *)
(* A git tree is a function from the paths of its blobs to the blobs'      *)
(* bytes.  Log and console contents are sequences of entries; the field    *)
(* ts says whether the entry carries the timestamp prefix that             *)
(* log_and_print puts in front of a message.                               *)
(***************************************************************************)
EXTENDS Integers, Sequences, FiniteSets, TLC

(* ---------------- bounds and input sets ---------------- *)

\* at most this many blobs in a commit's tree
MaxFiles == 2
\* the paths a commit's tree can hold a blob at: at the root, in a directory,
\* in a nested directory and in a sibling directory
BlobPaths == {<<"f">>, <<"s", "f">>, <<"s", "t", "f">>, <<"t", "f">>}
\* git stores the entries of a tree sorted by name
NameOrder == <<"f", "s", "t">>

\* blob contents: "A", "e-acute" (two bytes) and a truncated two-byte sequence
BlobData == {<<65>>, <<195, 169>>, <<195>>}

\* values of the -s/--src argument
SrcFolders == {<<>>, <<"s">>, <<"s", "t">>}

\* exit codes of the javadoc process started by gen_xml / compare_xml
GenExitCodes == {0, 1}
CmpExitCodes == {0, 1, 100, 101, 102}

\* prev_commit_id, latest_commit_id
CommitId == <<"A", "B">>

(* ---------------- program constants ---------------- *)

NO_CHANGES == 100
COMPATIBLE == 101
NON_COMPATIBLE == 102
ERROR == 1

None == "None"
\* tree[r] before _get_tree has returned for commit r
NoTree == [unresolved |-> TRUE]
DecodeError == "UnicodeDecodeError"

(* ---------------- git trees ---------------- *)

Trees ==
    UNION {[ps -> BlobData] : ps \in {qs \in SUBSET BlobPaths : Cardinality(qs) <= MaxFiles}}

(* ---------------- pure helpers ---------------- *)

\* pathlib: Path(p).parents, the strict ancestors of p down to Path(".")
Parents(p) == {SubSeq(p, 1, k) : k \in 0..(Len(p) - 1)}

\* mutant: only the blobs directly inside src_folder pass the filter
IsDirectChild(src_folder, next_path) ==
    next_path # <<>> /\ src_folder = SubSeq(next_path, 1, Len(next_path) - 1)

\* line 137: Path(src_folder) in Path(next_path).parents
IsUnderSrc(src_folder, next_path) == src_folder \in Parents(next_path)

BlobNamesAt(root_tree, path) ==
    SelectSeq(NameOrder, LAMBDA n : Append(path, n) \in DOMAIN root_tree)

TreeNamesAt(root_tree, path) ==
    SelectSeq(NameOrder, LAMBDA n :
        \E p \in DOMAIN root_tree :
            /\ Len(p) > Len(path) + 1
            /\ SubSeq(p, 1, Len(path) + 1) = Append(path, n))

RECURSIVE ListPaths(_, _, _)
RECURSIVE ListSubTrees(_, _, _, _)
\* _list_paths: the blobs of the directory first, then each sub-tree in turn
ListPaths(root_tree, src_folder, path) ==
    LET blobs == SelectSeq(BlobNamesAt(root_tree, path),
                           LAMBDA n : IsUnderSrc(src_folder, Append(path, n)))
        items == [k \in 1..Len(blobs) |->
                    <<Append(path, blobs[k]), root_tree[Append(path, blobs[k])]>>]
    IN  items \o ListSubTrees(root_tree, src_folder, path, TreeNamesAt(root_tree, path))

ListSubTrees(root_tree, src_folder, path, names) ==
    IF names = <<>> THEN <<>>
    ELSE ListPaths(root_tree, src_folder, Append(path, Head(names)))
         \o ListSubTrees(root_tree, src_folder, path, Tail(names))

RECURSIVE CommonLen(_, _)
CommonLen(p, q) ==
    IF p = <<>> \/ q = <<>> \/ Head(p) # Head(q) THEN 0
    ELSE 1 + CommonLen(Tail(p), Tail(q))

\* os.path.relpath(path, start)
Relpath(path, start) ==
    LET c == CommonLen(path, start)
        ups == [k \in 1..(Len(start) - c) |-> ".."]
        rel == ups \o SubSeq(path, c + 1, Len(path))
    IN  IF rel = <<>> THEN <<".">> ELSE rel

RECURSIVE Resolve(_, _)
\* how the file system resolves "." and ".." in a path handed to open()/makedirs()
Resolve(done, rest) ==
    IF rest = <<>> THEN done
    ELSE IF Head(rest) = "." THEN Resolve(done, Tail(rest))
    ELSE IF Head(rest) = ".."
         THEN Resolve(IF done = <<>> THEN <<"..">> ELSE SubSeq(done, 1, Len(done) - 1), Tail(rest))
    ELSE Resolve(Append(done, Head(rest)), Tail(rest))

\* os.path.join(a, b) as seen by the file system
Join(a, b) == Resolve(<<>>, a \o b)

\* os.path.dirname
Dirname(p) == IF p = <<>> THEN <<>> ELSE SubSeq(p, 1, Len(p) - 1)

RECURSIVE Utf8Decode(_)
\* bytes.decode('utf-8') for one- and two-byte sequences
Utf8Decode(bytes) ==
    IF bytes = <<>> THEN <<>>
    ELSE IF Head(bytes) < 128
         THEN LET r == Utf8Decode(Tail(bytes))
              IN  IF r = DecodeError THEN DecodeError ELSE <<Head(bytes)>> \o r
    ELSE IF /\ Head(bytes) >= 194 /\ Head(bytes) <= 223 /\ Len(bytes) >= 2
            /\ bytes[2] >= 128 /\ bytes[2] <= 191
         THEN LET r == Utf8Decode(Tail(Tail(bytes)))
              IN  IF r = DecodeError THEN DecodeError
                  ELSE <<(Head(bytes) - 192) * 64 + (bytes[2] - 128)>> \o r
    ELSE DecodeError

\* open(path, 'w'); write(text); close(): the file holds exactly text afterwards
WriteFile(files, path, text) ==
    {e \in files : e[1] # path} \cup {<<path, text>>}

\* os.makedirs: the directory and every missing ancestor
MakeDirs(ds, dir_path) ==
    ds \cup {SubSeq(dir_path, 1, k) : k \in 1..Len(dir_path)}

\* log_and_print writes the same time-stamped message to stdout and to the log
Stamped(message, rev) == [ts |-> TRUE, msg |-> message, rev |-> rev]
\* print(), a traceback on stderr, or the output of the javadoc child process
Plain(message, rev) == [ts |-> FALSE, msg |-> message, rev |-> rev]

MakeDirFailed == Plain("Exception thrown when creating directory", 0)

\* mutant: only the documented error code 1 is classified as an error
ClassifyErrorCodeOnly(code) ==
    IF code = ERROR THEN "*Error in XML, most likely an empty module"
    ELSE IF code = COMPATIBLE THEN "API Changes are backwards compatible"
    ELSE IF code = NON_COMPATIBLE THEN "API Changes are not backwards compatible"
    ELSE "No API changes"

\* lines 82-89: the message printed for an exit code
Classify(code) ==
    IF code = NO_CHANGES THEN "No API changes"
    ELSE IF code = COMPATIBLE THEN "API Changes are backwards compatible"
    ELSE IF code = NON_COMPATIBLE THEN "API Changes are not backwards compatible"
    ELSE "*Error in XML, most likely an empty module"

(* ---------------- state ---------------- *)

VARIABLES
    pc,            \* position in run_compare
    i,             \* index of commit_id in [prev_commit_id, latest_commit_id]
    src_rel_path,  \* the source folder inside the repository
    tree,          \* tree[r]: the tree _get_tree returned for commit r
    todo,          \* the (rel_path, blob) pairs _list_paths yields for commit i
    idx,           \* the pair of todo the loop of copy_commit_paths is at
    fs,            \* regular files under output_path except the log: <<path, text>>
    dirs,          \* directories under output_path
    log,           \* content of messages.log on disk
    logbuf,        \* entries written to the open log object and not flushed yet
    console,       \* stdout and stderr of the script
    calls,         \* the calls run_compare has made
    procs,         \* the javadoc processes started
    ret,           \* return value of compare_xml
    error,         \* the exception raised, if any
    status         \* running / returned / exit1 (SystemExit(1)) / exception (uncaught)

vars == <<pc, i, src_rel_path, tree, todo, idx, fs, dirs, log, logbuf, console,
          calls, procs, ret, error, status>>

Init ==
    /\ pc = "get_tree"
    /\ i = 1
    /\ src_rel_path \in SrcFolders
    /\ tree = <<NoTree, NoTree>>
    /\ todo = <<>>
    /\ idx = 1
    /\ fs = {}
    /\ dirs = {}
    /\ log = <<>>
    /\ logbuf = <<>>
    /\ console = <<>>
    /\ calls = <<>>
    /\ procs = <<>>
    /\ ret = None
    /\ error = None
    /\ status = "running"

\* line 248: src_copy
SrcCopy(r) == <<"src", CommitId[r]>>
\* line 250: the output_path argument of gen_xml
XmlOut(r) == <<CommitId[r], "output">>
\* lines 56-59: the user comments folder
CommentsDir == <<"diff", "user_comments_for_" \o CommitId[1], "output_to_" \o CommitId[2]>>

Call(op, r) == [op |-> op, rev |-> r]
Proc(kind, r) == [kind |-> kind, rev |-> r, state |-> "running", rc |-> None]
Exited(p, rc) == [p EXCEPT !.state = "exited", !.rc = rc]

(* ---------------- copy_commit_paths ---------------- *)

\* mutant: the unknown commit id is caught and the run goes on to gen_xml
GetTreeFailSwallowed ==
    /\ status = "running" /\ pc = "get_tree"
    /\ calls' = Append(calls, Call("copy_commit_paths", i))
    /\ error' = "BadName"
    /\ console' = Append(console, Plain("Traceback", i))
    /\ pc' = "gen_xml"
    /\ UNCHANGED <<i, src_rel_path, tree, todo, idx, fs, dirs, log, logbuf, procs, ret, status>>

\* lines 153-155: Repo(...) / repo.commit(commit_id) raises for an unknown id;
\* nothing catches it, so the traceback ends the script
GetTreeFail ==
    /\ status = "running" /\ pc = "get_tree"
    /\ calls' = Append(calls, Call("copy_commit_paths", i))
    /\ error' = "BadName"
    /\ status' = "exception"
    /\ console' = Append(console, Plain("Traceback", i))
    /\ UNCHANGED <<pc, i, src_rel_path, tree, todo, idx, fs, dirs, log, logbuf, procs, ret>>

\* lines 166-167: the tree is resolved and walked
GetTreeOk ==
    /\ status = "running" /\ pc = "get_tree"
    /\ \E t \in Trees :
        /\ tree' = [tree EXCEPT ![i] = t]
        /\ todo' = ListPaths(t, src_rel_path, <<>>)
    /\ calls' = Append(calls, Call("copy_commit_paths", i))
    /\ idx' = 1
    /\ pc' = "copy"
    /\ UNCHANGED <<i, src_rel_path, fs, dirs, log, logbuf, console, procs, ret, error, status>>

\* lines 168-173, make_dir fails: it prints and returns False, then open() raises
CopyFileNoDir ==
    /\ status = "running" /\ pc = "copy" /\ idx <= Len(todo)
    /\ console' = console \o <<MakeDirFailed, Plain("Traceback", i)>>
    /\ error' = "OSError"
    /\ status' = "exception"
    /\ UNCHANGED <<pc, i, src_rel_path, tree, todo, idx, fs, dirs, log, logbuf, calls, procs, ret>>

\* mutant: a blob that is not valid UTF-8 is skipped
CopyFileSkipBadData ==
    /\ status = "running" /\ pc = "copy" /\ idx <= Len(todo)
    /\ Utf8Decode(todo[idx][2]) = DecodeError
    /\ idx' = idx + 1
    /\ UNCHANGED <<pc, i, src_rel_path, tree, todo, fs, dirs, log, logbuf, console, calls,
                   procs, ret, error, status>>

\* lines 168-173, the blob is not valid UTF-8: the file is already opened for
\* writing (so it exists, empty) when decode raises
CopyFileBadData ==
    /\ status = "running" /\ pc = "copy" /\ idx <= Len(todo)
    /\ LET rel_path == todo[idx][1]
           output_path == Join(SrcCopy(i), Relpath(rel_path, src_rel_path))
       IN  /\ Utf8Decode(todo[idx][2]) = DecodeError
           /\ dirs' = MakeDirs(dirs, Dirname(output_path))
           /\ fs' = WriteFile(fs, output_path, <<>>)
    /\ console' = Append(console, Plain("Traceback", i))
    /\ error' = DecodeError
    /\ status' = "exception"
    /\ UNCHANGED <<pc, i, src_rel_path, tree, todo, idx, log, logbuf, calls, procs, ret>>

\* lines 168-173: one file is written
CopyFileOk ==
    /\ status = "running" /\ pc = "copy" /\ idx <= Len(todo)
    /\ LET rel_path == todo[idx][1]
           output_path == Join(SrcCopy(i), Relpath(rel_path, src_rel_path))
           text == Utf8Decode(todo[idx][2])
       IN  /\ text # DecodeError
           /\ dirs' = MakeDirs(dirs, Dirname(output_path))
           /\ fs' = WriteFile(fs, output_path, text)
    /\ idx' = idx + 1
    /\ UNCHANGED <<pc, i, src_rel_path, tree, todo, log, logbuf, console, calls, procs, ret,
                   error, status>>

\* line 167: the generator is exhausted, copy_commit_paths returns
CopyDone ==
    /\ status = "running" /\ pc = "copy" /\ idx > Len(todo)
    /\ pc' = "gen_xml"
    /\ UNCHANGED <<i, src_rel_path, tree, todo, idx, fs, dirs, log, logbuf, console, calls,
                   procs, ret, error, status>>

(* ---------------- gen_xml ---------------- *)

\* A make_dir that fails is modelled where the caller needs the directory at
\* once (copy_commit_paths opens a file in it); in gen_xml and compare_xml the
\* directory is taken to be created.

Generating(r) == Stamped("Generating XML for", r)
Generated(r) == Stamped("Generated XML for", r)
GenError(r) == Stamped("Error executing javadoc, Exiting...", r)
CmpError == Stamped("Error executing javadoc:, Exiting...", 0)
JavadocOutput(r) == Plain("javadoc output", r)

\* mutant: the process is started and not waited for
GenXmlLaunchNoWait ==
    /\ status = "running" /\ pc = "gen_xml"
    /\ calls' = Append(calls, Call("gen_xml", i))
    /\ dirs' = MakeDirs(dirs, XmlOut(i))
    /\ console' = console \o <<Generating(i), Generated(i)>>
    /\ log' = log \o <<Generating(i), Generated(i)>>
    /\ procs' = Append(procs, Proc("gen", i))
    /\ IF i < Len(CommitId)
       THEN /\ i' = i + 1
            /\ pc' = "get_tree"
       ELSE /\ i' = i
            /\ pc' = "compare_xml"
    /\ UNCHANGED <<src_rel_path, tree, todo, idx, fs, logbuf, ret, error, status>>

\* lines 103-114, Popen succeeds.  open_log_file opens messages.log with 'a+'
\* (creating it empty when missing); the message of line 106 stays in the
\* buffer of the log object while the child writes to the file itself.
GenXmlLaunch ==
    /\ status = "running" /\ pc = "gen_xml"
    /\ calls' = Append(calls, Call("gen_xml", i))
    /\ dirs' = MakeDirs(dirs, XmlOut(i))
    /\ console' = Append(console, Generating(i))
    /\ logbuf' = <<Generating(i)>>
    /\ procs' = Append(procs, Proc("gen", i))
    /\ pc' = "gen_wait"
    /\ UNCHANGED <<i, src_rel_path, tree, todo, idx, fs, log, ret, error, status>>

\* mutant: the failed launch is logged and gen_xml returns
GenXmlLaunchFailReturns ==
    /\ status = "running" /\ pc = "gen_xml"
    /\ calls' = Append(calls, Call("gen_xml", i))
    /\ dirs' = MakeDirs(dirs, XmlOut(i))
    /\ console' = console \o <<Generating(i), GenError(i)>>
    /\ log' = log \o <<Generating(i), GenError(i)>>
    /\ logbuf' = <<>>
    /\ error' = "GenLaunchFailure"
    /\ IF i < Len(CommitId)
       THEN /\ i' = i + 1
            /\ pc' = "get_tree"
       ELSE /\ i' = i
            /\ pc' = "compare_xml"
    /\ UNCHANGED <<src_rel_path, tree, todo, idx, fs, procs, ret, status>>

\* lines 103-118, Popen raises: the error is logged and exit(1) ends the script
\* (the interpreter flushes the open log object on its way out)
GenXmlLaunchFail ==
    /\ status = "running" /\ pc = "gen_xml"
    /\ calls' = Append(calls, Call("gen_xml", i))
    /\ dirs' = MakeDirs(dirs, XmlOut(i))
    /\ console' = console \o <<Generating(i), GenError(i)>>
    /\ log' = log \o <<Generating(i), GenError(i)>>
    /\ logbuf' = <<>>
    /\ error' = "GenLaunchFailure"
    /\ status' = "exit1"
    /\ UNCHANGED <<pc, i, src_rel_path, tree, todo, idx, fs, procs, ret>>

\* lines 115-122 and the loop of line 247: wait() returns whatever the exit
\* code is, the code is not looked at; the log is closed (flushed, appended)
GenXmlWait ==
    /\ status = "running" /\ pc = "gen_wait"
    /\ \E rc \in GenExitCodes :
        procs' = [procs EXCEPT ![Len(procs)] = Exited(procs[Len(procs)], rc)]
    /\ log' = log \o <<JavadocOutput(i)>> \o logbuf \o <<Generated(i)>>
    /\ logbuf' = <<>>
    /\ console' = Append(console, Generated(i))
    /\ IF i < Len(CommitId)
       THEN /\ i' = i + 1
            /\ pc' = "get_tree"
       ELSE /\ i' = i
            /\ pc' = "compare_xml"
    /\ UNCHANGED <<src_rel_path, tree, todo, idx, fs, dirs, calls, ret, error, status>>

\* lines 115-118: wait() raises, handled like a failed launch
GenXmlWaitFail ==
    /\ status = "running" /\ pc = "gen_wait"
    /\ console' = Append(console, GenError(i))
    /\ log' = log \o logbuf \o <<GenError(i)>>
    /\ logbuf' = <<>>
    /\ error' = "GenLaunchFailure"
    /\ status' = "exit1"
    /\ UNCHANGED <<pc, i, src_rel_path, tree, todo, idx, fs, dirs, calls, procs, ret>>

(* ---------------- compare_xml ---------------- *)

\* lines 51-73, Popen succeeds.  open(log_path, "w") truncates messages.log.
CompareXmlLaunch ==
    /\ status = "running" /\ pc = "compare_xml"
    /\ calls' = Append(calls, Call("compare_xml", 0))
    /\ dirs' = MakeDirs(dirs, CommentsDir)
    /\ console' = console
    /\ log' = <<>>
    /\ logbuf' = <<>>
    /\ procs' = Append(procs, Proc("cmp", 0))
    /\ pc' = "cmp_wait"
    /\ UNCHANGED <<i, src_rel_path, tree, todo, idx, fs, ret, error, status>>

\* mutant: the failed launch is logged, classified as an error and returned from
CompareXmlLaunchFailReturns ==
    /\ status = "running" /\ pc = "compare_xml"
    /\ calls' = Append(calls, Call("compare_xml", 0))
    /\ dirs' = MakeDirs(dirs, CommentsDir)
    /\ console' = console \o <<CmpError, Plain("Compared XML", 0), Plain("*Error in XML, most likely an empty module", 0)>>
    /\ log' = <<CmpError>>
    /\ logbuf' = <<>>
    /\ error' = "CmpLaunchFailure"
    /\ pc' = "end"
    /\ status' = "returned"
    /\ UNCHANGED <<i, src_rel_path, tree, todo, idx, fs, procs, ret>>

\* lines 51-78, Popen raises: the error is logged and exit(1) ends the script
CompareXmlLaunchFail ==
    /\ status = "running" /\ pc = "compare_xml"
    /\ calls' = Append(calls, Call("compare_xml", 0))
    /\ dirs' = MakeDirs(dirs, CommentsDir)
    /\ console' = Append(console, CmpError)
    /\ log' = <<CmpError>>
    /\ logbuf' = <<>>
    /\ error' = "CmpLaunchFailure"
    /\ status' = "exit1"
    /\ UNCHANGED <<pc, i, src_rel_path, tree, todo, idx, fs, procs, ret>>

\* lines 74-91: wait() returns, the exit code is classified on stdout and
\* returned; run_compare and main return after it
CompareXmlWait ==
    /\ status = "running" /\ pc = "cmp_wait"
    /\ \E code \in CmpExitCodes :
        /\ procs' = [procs EXCEPT ![Len(procs)] = Exited(procs[Len(procs)], code)]
        /\ console' = console \o <<Plain("Compared XML", 0), Plain(Classify(code), 0)>>
        /\ ret' = code
    /\ log' = log \o <<JavadocOutput(0)>>
    /\ pc' = "end"
    /\ status' = "returned"
    /\ UNCHANGED <<i, src_rel_path, tree, todo, idx, fs, dirs, logbuf, calls, error>>

\* lines 74-78: wait() raises, handled like a failed launch
CompareXmlWaitFail ==
    /\ status = "running" /\ pc = "cmp_wait"
    /\ console' = Append(console, CmpError)
    /\ log' = Append(log, CmpError)
    /\ error' = "CmpLaunchFailure"
    /\ status' = "exit1"
    /\ UNCHANGED <<pc, i, src_rel_path, tree, todo, idx, fs, dirs, logbuf, calls, procs, ret>>

(* ---------------- run_compare ---------------- *)

Next ==
    \/ GetTreeFail
    \/ GetTreeOk
    \/ CopyFileNoDir
    \/ CopyFileBadData
    \/ CopyFileOk
    \/ CopyDone
    \/ GenXmlLaunch
    \/ GenXmlLaunchFail
    \/ GenXmlWait
    \/ GenXmlWaitFail
    \/ CompareXmlLaunch
    \/ CompareXmlLaunchFail
    \/ CompareXmlWait
    \/ CompareXmlWaitFail

Spec == Init /\ [][Next]_vars

(* ---------------- properties ---------------- *)

Last(s) == s[Len(s)]

IsStrictPrefix(pre, p) ==
    /\ Len(pre) < Len(p)
    /\ \A k \in 1..Len(pre) : p[k] = pre[k]

\* the text a blob stands for, written out by hand
TextOf(bytes) ==
    CASE bytes = <<65>> -> <<65>>
      [] bytes = <<195, 169>> -> <<233>>
      [] OTHER -> "undecodable"

\* the blobs of commit r that lie under the source folder
UnderSrc(r) ==
    IF tree[r] = NoTree THEN {}
    ELSE {p \in DOMAIN tree[r] : IsStrictPrefix(src_rel_path, p)}

\* where the blob at p of commit r belongs in the output
DestOf(r, p) == SrcCopy(r) \o SubSeq(p, Len(src_rel_path) + 1, Len(p))

ExpectedFiles(r) == {<<DestOf(r, p), TextOf(tree[r][p])>> : p \in UnderSrc(r)}

\* copy_commit_paths has returned for commit r
ExtractDone(r) == r < i \/ (r = i /\ pc \notin {"get_tree", "copy"})

\* C1: once copy_commit_paths has returned for a commit, the files in the
\* output are exactly the blobs under the source folder, each at
\* src/<commit>/<path relative to the source folder> with its decoded text
\* (none when no blob lies under the folder); and at no time is there a file
\* that does not come from a blob under the source folder.
C1_ExtractsExactlyPrefix ==
    /\ \A r \in 1..2 :
        ExtractDone(r) =>
            {e \in fs : IsStrictPrefix(SrcCopy(r), e[1])} = ExpectedFiles(r)
    /\ \A e \in fs : \E r \in 1..2 : \E p \in UnderSrc(r) : e[1] = DestOf(r, p)

\* C1 witness: the first extraction copied some blobs and left others out, the
\* second one returned without error although nothing lay under the folder
C1_Witness ==
    /\ ExtractDone(2)
    /\ status = "running"
    /\ UnderSrc(1) # {}
    /\ UnderSrc(1) # DOMAIN tree[1]
    /\ UnderSrc(2) = {}
    /\ DOMAIN tree[2] # {}

\* C2: whatever exit code the comparison process ends with, compare_xml
\* returns that code, nothing is raised, the script is not terminated, and
\* the printed class is "no changes" for 100, "compatible" for 101,
\* "incompatible" for 102 and the error message for anything else.
C2_ReturnsExitCode ==
    \A k \in 1..Len(procs) :
        (procs[k].kind = "cmp" /\ procs[k].state = "exited") =>
            /\ status = "returned"
            /\ error = None
            /\ ret = procs[k].rc
            /\ Last(console).msg =
                 CASE ret = 100 -> "No API changes"
                   [] ret = 101 -> "API Changes are backwards compatible"
                   [] ret = 102 -> "API Changes are not backwards compatible"
                   [] OTHER -> "*Error in XML, most likely an empty module"

\* C2 witness: the comparison ended with an exit code outside 100..102
C2_Witness ==
    /\ Len(procs) = 3
    /\ procs[3].state = "exited"
    /\ procs[3].rc = 0
    /\ ret = 0

\* C3: a generation process that exits with a non-zero code terminates the
\* script at once: exit status 1 and no process started after it.
C3_NonZeroGenExitIsFatal ==
    \A k \in 1..Len(procs) :
        (procs[k].kind = "gen" /\ procs[k].state = "exited" /\ procs[k].rc # 0) =>
            /\ status = "exit1"
            /\ Len(procs) = k

\* C4: when the generation process cannot be launched, the error is logged
\* (log and console) and the script ends with exit status 1; gen_xml for that
\* commit is the last call made and no process exists for a later step.
C4_GenLaunchFailureIsFatal ==
    error = "GenLaunchFailure" =>
        /\ status = "exit1"
        /\ Last(calls) = Call("gen_xml", i)
        /\ \A k \in 1..Len(procs) : procs[k].kind = "gen" /\ procs[k].rev <= i
        /\ Last(log) = GenError(i)
        /\ Last(console) = GenError(i)
        /\ ret = None

\* C4 witness: the launch for the second commit failed after the generation
\* for the first one had run
C4_Witness ==
    /\ error = "GenLaunchFailure"
    /\ i = 2
    /\ Len(procs) = 1
    /\ procs[1].state = "exited"

\* C5 as stated: when a commit id cannot be resolved, no generation process
\* has been launched for any commit.
C5_NoGenerationAtAll ==
    error = "BadName" => procs = <<>>

\* C5 amended: when a commit id cannot be resolved the script ends there: no
\* generation is launched for that commit or a later one and the comparator
\* is never launched; only when the id is the old one has no generation run.
C5_AbortBeforeOwnGeneration ==
    error = "BadName" =>
        /\ status = "exception"
        /\ Last(calls) = Call("copy_commit_paths", i)
        /\ \A k \in 1..Len(procs) :
            procs[k].kind = "gen" /\ procs[k].rev < i /\ procs[k].state = "exited"
        /\ (i = 1 => procs = <<>>)

\* C5 witness: the new commit id is the unresolvable one
C5_Witness ==
    /\ error = "BadName"
    /\ i = 2
    /\ Len(procs) = 1

CallOrder ==
    <<Call("copy_commit_paths", 1), Call("gen_xml", 1),
      Call("copy_commit_paths", 2), Call("gen_xml", 2), Call("compare_xml", 0)>>

ProcOrder == <<[kind |-> "gen", rev |-> 1], [kind |-> "gen", rev |-> 2], [kind |-> "cmp", rev |-> 0]>>

AllExited == \A k \in 1..Len(procs) : procs[k].state = "exited"

C6_Order ==
    /\ Len(calls) <= Len(CallOrder)
    /\ calls = SubSeq(CallOrder, 1, Len(calls))
    /\ Len(procs) <= Len(ProcOrder)
    /\ \A k \in 1..Len(procs) :
        /\ procs[k].kind = ProcOrder[k].kind
        /\ procs[k].rev = ProcOrder[k].rev
        /\ (k < Len(procs) => procs[k].state = "exited")
    /\ (status = "returned" => calls = CallOrder /\ Len(procs) = 3 /\ AllExited)

C6_Step ==
    (calls' # calls \/ Len(procs') > Len(procs) \/ fs' # fs \/ dirs' # dirs) => AllExited

\* C6: the calls of a run are a prefix of extract(old), generate(old),
\* extract(new), generate(new), compare; the processes are a prefix of
\* gen(old), gen(new), cmp; no call is made, no process launched and no file or
\* directory written while a process is still running; a run that returns
\* has made all five calls, two generation launches and one comparison launch.
C6_FixedOrder == []C6_Order /\ [][C6_Step]_vars

\* C6 witness: a run that reached the end
C6_Witness ==
    /\ status = "returned"
    /\ Len(procs) = 3
    /\ Len(calls) = 5

\* C7: no step removes an entry from messages.log.
C7_LogAppendOnly ==
    [][\A k \in 1..Len(log) : \E j \in 1..Len(log') : log'[j] = log[k]]_vars

C9_EveryFailureLogged ==
    error # None =>
        /\ log # <<>>
        /\ Last(log).ts
        /\ Last(console).ts
        /\ Last(log) = Last(console)

\* the blobs under the source folder that are not valid text
BadBlobs(r) == {p \in UnderSrc(r) : TextOf(tree[r][p]) = "undecodable"}

BadInTodo == {k \in 1..Len(todo) : todo[k][1] \in BadBlobs(i)}

\* C10: when a blob under the source folder of a commit is not decodable, the
\* extraction stops at the first such blob: no blob after it in the walk is
\* written, no process is launched for that commit or later, the decode error
\* is left uncaught and the run never returns.
C10_DecodeFailureAborts ==
    /\ \A r \in 1..2 :
        BadBlobs(r) # {} =>
            /\ r = i
            /\ pc = "copy"
            /\ status # "returned"
            /\ \A k \in 1..Len(procs) : procs[k].kind = "gen" /\ procs[k].rev < r
            /\ \A k \in BadInTodo : idx <= k
            /\ \A k \in 1..Len(todo) :
                (\E b \in BadInTodo : b < k) =>
                    ~ \E e \in fs : e[1] = DestOf(r, todo[k][1])
    /\ error = DecodeError => status = "exception" /\ idx \in BadInTodo

\* C10 witness: the decode error hit the new commit while blobs were left
C10_Witness ==
    /\ error = DecodeError
    /\ i = 2
    /\ idx < Len(todo)
    /\ Len(procs) = 1

====
